---- MODULE Spec2Model ----
(***************************************************************************)
(* The reCAPTCHA render / retry / submit coordination of the contact page: *)
(* resource/script/recaptcha-display.js (both of its IIFEs, which run in   *)
(* the same page) and resource/script/form.js.  Each script installs its   *)
(* own window.onSubmitForm and its own API onload hook, so a page is       *)
(* driven by one of them: `page` says which.                               *)
(*                                                                         *)
(* The document holds one form #contactForm with one .recaptcha-container  *)
(* that wraps one .g-recaptcha placeholder.  Handlers are operators from a *)
(* state record to a state record, composed the way the code calls them;   *)
(* an action is one browser task (event handler or timer callback).        *)
(***************************************************************************)
EXTENDS Integers, Sequences, FiniteSets, TLC

\* ---------------------------------------------------------------- config
BREAKPOINT == 410
MAX_RENDER_RETRIES == 5
DEBOUNCE_MS == 120
RETRY_BASE_MS == 700

\* ---------------------------------------------------------------- bounds
\* DOM nodes that may be created as placeholder replacements.
MaxNodes == 2
\* Length of grecaptchaReadyQueue.
MaxQueue == 7
\* External events per page load: user actions, widget events, the API
\* script's arrival and load signal.  Timer callbacks are not counted.
MaxEvents == 5
\* Callbacks handed to whenGrecaptchaReady by the queue harness (SpecQueue).
MaxProbes == 5
\* Polling intervals of form.js pending at once.
MaxIntervals == 2
\* attemptRender calls nested on the stack (SpecAttempt).
MaxDepth == 4
\* Milliseconds of clock followed, and resize events delivered (SpecDebounce).
MaxTime == 480
MaxResizes == 3
\* Entries of articles_data.json (SpecArticles).
MaxArticles == 3

Widths == {300, 410, 500}
Tokens == {"t1", "t2"}
\* getAttribute() of a missing attribute / a null handle.
NoWidget == -1
\* A missing attribute (JS null); "" is the empty string.
Null == "null"

MsgFailed == "reCAPTCHA failed to load"
MsgExpired == "reCAPTCHA expired"
MsgError == "reCAPTCHA error occurred"

VARIABLES
    page,                  \* "display" | "form" | "queue": the script driving the page
    innerWidth,            \* window.innerWidth
    apiPresent,            \* typeof window.grecaptcha.render === 'function'
    widgets,               \* grecaptcha's widgets; handle h is widgets[h + 1]
    \* --- recaptcha-display.js, first IIFE
    grecaptchaReady,
    grecaptchaReadyQueue,
    allowSubmit,
    retryState,            \* WeakMap node -> [attempts, scheduled]
    timers,                \* pending retry timeouts: [el, delay]
    resizeTimer1,          \* first IIFE's resizeTimer is pending
    resizeTimer2,          \* second IIFE's resizeTimer is pending
    \* --- DOM
    el,                    \* identity of the current .g-recaptcha node
    dataSize,              \* its data-size
    renderedSize,          \* its data-recaptcha-rendered-size
    widgetIdAttr,          \* its data-recaptcha-widget-id
    containerHidden,       \* container has class recaptcha-hidden
    errorBoxes,            \* texts of the .recaptcha-error-box elements
    hiddenInputs,          \* values of input[name="g-recaptcha-response"]
    \* --- form.js
    recaptchaWidgetId,
    pendingForm,
    apiLoaded,
    intervals,             \* pending setInterval pollers
    \* --- observations
    submissions,           \* form submissions so far (native and programmatic)
    invoked,               \* log of the harness callbacks run: [id, threw, drained]
    successFired,          \* a success callback has run
    renderCalls,           \* node -> number of grecaptcha.render calls made on it
    gaveUp,                \* scheduleRenderAttempt has given up at the ceiling
    depth,                 \* attemptRender calls on the stack (SpecAttempt)
    deferred,              \* a submit was intercepted and the form not submitted since
    dom,                   \* parent, nodes and attributes seen by replaceAndMaybeRender (SpecReplace)
    debounce,              \* clock and setTimeout handles of the resize handlers (SpecDebounce)
    list,                  \* articles page: fetched data and container contents (SpecArticles)
    rz,                    \* replace/render calls made by applyCompact since the last resize
    events                 \* external events so far

vars == << page, innerWidth, apiPresent, widgets, grecaptchaReady,
           grecaptchaReadyQueue, allowSubmit, retryState, timers, resizeTimer1,
           resizeTimer2, el, dataSize, renderedSize, widgetIdAttr,
           containerHidden, errorBoxes, hiddenInputs, recaptchaWidgetId,
           pendingForm, apiLoaded, intervals, submissions,
           invoked, successFired, renderCalls, gaveUp, depth, deferred,
           dom, debounce, list, rz, events >>

\* The state as one record, for the handlers to take and return.  The fields
\* prevented and returned are what a submit handler answers its event with:
\* whether it called preventDefault, and its return value; resetCalls are
\* the handles the handler has passed to grecaptcha.reset.
Cur ==
    [ page |-> page, innerWidth |-> innerWidth, apiPresent |-> apiPresent,
      widgets |-> widgets, grecaptchaReady |-> grecaptchaReady,
      grecaptchaReadyQueue |-> grecaptchaReadyQueue, allowSubmit |-> allowSubmit,
      retryState |-> retryState, timers |-> timers, resizeTimer1 |-> resizeTimer1,
      resizeTimer2 |-> resizeTimer2, el |-> el, dataSize |-> dataSize,
      renderedSize |-> renderedSize, widgetIdAttr |-> widgetIdAttr,
      containerHidden |-> containerHidden, errorBoxes |-> errorBoxes,
      hiddenInputs |-> hiddenInputs, recaptchaWidgetId |-> recaptchaWidgetId,
      pendingForm |-> pendingForm, apiLoaded |-> apiLoaded, intervals |-> intervals,
      submissions |-> submissions,
      invoked |-> invoked, successFired |-> successFired,
      renderCalls |-> renderCalls, gaveUp |-> gaveUp, depth |-> depth,
      dom |-> dom, debounce |-> debounce, list |-> list, rz |-> rz,
      events |-> events,
      prevented |-> FALSE, returned |-> FALSE, resetCalls |-> << >> ]

RECURSIVE Pow2(_)
Pow2(n) == IF n = 0 THEN 1 ELSE 2 * Pow2(n - 1)

\* `x || ''` of an attribute value.
Norm(x) == IF x = Null THEN "" ELSE x

\* No document looked at node by node, outside SpecReplace.
NoDom == << >>

\* No clock kept, outside SpecDebounce.
NoDebounce == << >>

\* No articles page, outside SpecArticles.
NoList == << >>

\* The rz observation outside a resize cycle.
NoRz == [replaces |-> -1, renders |-> -1]

\* ------------------------------------------------- third-party widget API
\* grecaptcha.render(node, opts): throws for the nodes in `bad`, otherwise
\* registers a widget and returns its handle (0, 1, 2, ...).
RenderThrows(node, bad) == node \in bad

\* grecaptcha.render has been called on node, whatever came of the call.
RenderCalled(s, node) ==
    [s EXCEPT !.renderCalls =
        [n \in (DOMAIN @) \cup {node} |->
            (IF n \in DOMAIN @ THEN @[n] ELSE 0) + (IF n = node THEN 1 ELSE 0)]]

NewWidget(node, size, cbs) ==
    [node |-> node, size |-> Norm(size), cbs |-> cbs, resp |-> ""]

\* grecaptcha.reset(h): the widget goes back to unsolved.
GrecaptchaReset(s, h) ==
    IF h >= 0 /\ h < Len(s.widgets)
    THEN [s EXCEPT !.widgets[h + 1].resp = "", !.resetCalls = Append(@, h)]
    ELSE [s EXCEPT !.resetCalls = Append(@, h)]

\* grecaptcha.getResponse(h)
GetResponse(s, h) ==
    IF h >= 0 /\ h < Len(s.widgets) THEN s.widgets[h + 1].resp ELSE ""

\* ------------------------------------------------ recaptcha-display.js (1)
DesiredSize(w) == IF w < BREAKPOINT THEN "compact" ELSE Null

ShowInlineErrorAppend(s, text) ==
    [s EXCEPT !.errorBoxes = Append(@, text)]

ShowInlineError(s, text) ==
    IF s.errorBoxes = << >>
    THEN [s EXCEPT !.errorBoxes = << text >>]
    ELSE [s EXCEPT !.errorBoxes[1] = text]

ClearInlineError(s) ==
    IF s.errorBoxes = << >> THEN s ELSE [s EXCEPT !.errorBoxes = Tail(@)]

\* retryState.get(node) || { attempts: 0, scheduled: false }
RetryGet(s, node) ==
    IF node \in DOMAIN s.retryState
    THEN s.retryState[node]
    ELSE [attempts |-> 0, scheduled |-> FALSE]

RetrySet(s, node, st) ==
    [s EXCEPT !.retryState =
        [n \in (DOMAIN @) \cup {node} |-> IF n = node THEN st ELSE @[n]]]

RetryDelete(s, node) ==
    [s EXCEPT !.retryState = [n \in (DOMAIN @) \ {node} |-> @[n]]]

\* The first IIFE's replaceAndMaybeRender; called with the API present or not.
\* Returns the state and the widget id (NoWidget for null).
ReplaceAndMaybeRender(s, size, bad) ==
    LET newEl == s.el + 1
        \* copyDataAttributes, then data-size and data-recaptcha-rendered-size
        s1 == [s EXCEPT !.el = newEl,
                        !.dataSize = size,
                        !.renderedSize = Norm(size)]
        s2 == RenderCalled(s1, newEl)
    IN  IF s1.apiPresent
        THEN IF RenderThrows(newEl, bad)
             THEN [st |-> s2, widgetId |-> NoWidget]
             ELSE [st |-> [s2 EXCEPT
                             !.widgets = Append(@, NewWidget(newEl, size, TRUE)),
                             !.widgetIdAttr = Len(s1.widgets)],
                   widgetId |-> Len(s1.widgets)]
        ELSE [st |-> s1, widgetId |-> NoWidget]

ScheduleRenderAttempt(s) ==
    LET node == s.el
        state == RetryGet(s, node)
    IN  IF state.scheduled THEN s
        ELSE IF state.attempts >= MAX_RENDER_RETRIES
        THEN RetrySet(ShowInlineError([s EXCEPT !.gaveUp = TRUE], MsgFailed),
                      node, state)
        ELSE LET delay == RETRY_BASE_MS * Pow2(state.attempts)
                 s1 == RetrySet(s, node, [attempts |-> state.attempts + 1,
                                          scheduled |-> TRUE])
             IN  [s1 EXCEPT !.timers = @ \cup {[el |-> node, delay |-> delay]}]

\* A callback handed to whenGrecaptchaReady.  The display script hands over
\* only the closure () => attemptRender(container, callbacks) (kind "render");
\* kind "probe" is an arbitrary callback of the queue harness, which returns
\* or throws.
RenderClosure(s) == [id |-> 0, kind |-> "render", throws |-> FALSE]

\* The log of the harness callbacks run.
Logged(s, fn, threw, drained) ==
    IF fn.kind = "probe"
    THEN [s EXCEPT !.invoked = Append(@, [id |-> fn.id, threw |-> threw,
                                          drained |-> drained])]
    ELSE s

RECURSIVE AttemptRender(_, _)
RECURSIVE RunCallback(_, _, _)

WhenGrecaptchaReadyAlwaysQueue(s, fn, bad) ==
    [s EXCEPT !.grecaptchaReadyQueue = Append(@, fn)]

\* whenGrecaptchaReady(fn)
WhenGrecaptchaReady(s, fn, bad) ==
    IF s.grecaptchaReady
    THEN LET r == RunCallback(s, fn, bad)
         IN  Logged(r.st, fn, r.threw, FALSE)
    ELSE [s EXCEPT !.grecaptchaReadyQueue = Append(@, fn)]

AttemptRenderNoRecheck(s, bad) ==
    LET s1 == ClearInlineError(s)
    IN  IF s1.apiPresent
        THEN LET res == ReplaceAndMaybeRender(s1, DesiredSize(s1.innerWidth), bad)
             IN  IF res.widgetId # NoWidget
                 THEN ClearInlineError(RetryDelete(res.st, res.st.el))
                 ELSE ScheduleRenderAttempt(res.st)
        ELSE ScheduleRenderAttempt(
                 WhenGrecaptchaReady(s1, RenderClosure(s1), bad))

AttemptRenderNoSafetyNet(s, bad) ==
    LET s1 == ClearInlineError(s)
    IN  IF s1.widgetIdAttr # NoWidget /\ s1.apiPresent
        THEN s1
        ELSE IF s1.apiPresent
        THEN LET res == ReplaceAndMaybeRender(s1, DesiredSize(s1.innerWidth), bad)
             IN  IF res.widgetId # NoWidget
                 THEN ClearInlineError(RetryDelete(res.st, res.st.el))
                 ELSE ScheduleRenderAttempt(res.st)
        ELSE WhenGrecaptchaReady(s1, RenderClosure(s1), bad)

AttemptRender(s, bad) ==
    LET s1 == ClearInlineError(s)
    IN  IF s1.widgetIdAttr # NoWidget /\ s1.apiPresent
        THEN s1                                          \* already rendered
        ELSE IF s1.apiPresent
        THEN LET res == ReplaceAndMaybeRender(s1, DesiredSize(s1.innerWidth), bad)
             IN  IF res.widgetId # NoWidget
                 THEN ClearInlineError(RetryDelete(res.st, res.st.el))
                 ELSE ScheduleRenderAttempt(res.st)
        ELSE ScheduleRenderAttempt(
                 WhenGrecaptchaReady(s1, RenderClosure(s1), bad))

\* fn(): what running a queued callback does, and whether it threw.
RunCallback(s, fn, bad) ==
    IF fn.kind = "render"
    THEN [st |-> AttemptRender(s, bad), threw |-> FALSE]
    ELSE [st |-> s, threw |-> fn.throws]

RECURSIVE DrainNoCatch(_, _)
DrainNoCatch(s, bad) ==
    IF s.grecaptchaReadyQueue = << >> THEN s
    ELSE LET fn == Head(s.grecaptchaReadyQueue)
             s1 == [s EXCEPT !.grecaptchaReadyQueue = Tail(@)]
             r  == RunCallback(s1, fn, bad)
             s2 == Logged(r.st, fn, r.threw, TRUE)
         IN  IF r.threw THEN s2 ELSE DrainNoCatch(s2, bad)

\* The while loop of onRecaptchaApiLoaded: shift, call inside try/catch.
RECURSIVE Drain(_, _)
Drain(s, bad) ==
    IF s.grecaptchaReadyQueue = << >> THEN s
    ELSE LET fn == Head(s.grecaptchaReadyQueue)
             s1 == [s EXCEPT !.grecaptchaReadyQueue = Tail(@)]
             r  == RunCallback(s1, fn, bad)
             s2 == Logged(r.st, fn, r.threw, TRUE)
         IN  Drain(s2, bad)

OnRecaptchaApiLoaded(s, bad) ==
    Drain([s EXCEPT !.grecaptchaReady = TRUE], bad)

\* onRecaptchaSuccess(token) of recaptcha-display.js
OnRecaptchaSuccessNewInput(s, token) ==
    [s EXCEPT !.hiddenInputs = Append(@, token),
              !.allowSubmit = TRUE,
              !.submissions = @ + 1,        \* form.submit()
              !.successFired = TRUE]

OnRecaptchaSuccess(s, token) ==
    LET s1 == IF s.hiddenInputs = << >>
              THEN [s EXCEPT !.hiddenInputs = << token >>]
              ELSE [s EXCEPT !.hiddenInputs[1] = token]
    IN  [s1 EXCEPT !.allowSubmit = TRUE,
                   !.submissions = @ + 1,   \* form.submit(): no submit event
                   !.successFired = TRUE]

\* onRecaptchaExpired() of recaptcha-display.js
OnRecaptchaExpired(s) ==
    LET s1 == ShowInlineError(s, MsgExpired)
        wid == s1.widgetIdAttr
    IN  IF wid # NoWidget /\ s1.apiPresent THEN GrecaptchaReset(s1, wid) ELSE s1

\* onRecaptchaError() of recaptcha-display.js
OnRecaptchaError(s) ==
    ScheduleRenderAttempt(ShowInlineError(s, MsgError))

\* window.onSubmitForm of recaptcha-display.js.  The page has the form and the
\* container; a handler that returns true without preventDefault lets the
\* browser submit natively.
OnSubmitFormNoIntercept(s, bad) ==
    [s EXCEPT !.allowSubmit = FALSE, !.prevented = FALSE, !.returned = TRUE,
              !.submissions = @ + 1]

OnSubmitForm(s, bad) ==
    IF s.allowSubmit
    THEN [s EXCEPT !.allowSubmit = FALSE, !.prevented = FALSE, !.returned = TRUE,
                   !.submissions = @ + 1]
    ELSE LET s1 == [s EXCEPT !.prevented = TRUE, !.containerHidden = FALSE]
         IN  [AttemptRender(s1, bad) EXCEPT !.returned = FALSE]

\* applyCompact of the first IIFE (one placeholder).
ApplyCompact1(s, bad) ==
    LET size == DesiredSize(s.innerWidth)
        applied == Norm(s.renderedSize)
        desiredNorm == Norm(size)
        currentAttrSize == Norm(s.dataSize)
    IN  IF applied = desiredNorm /\ currentAttrSize = Norm(size)
        THEN s
        ELSE AttemptRender(s, bad)

\* ------------------------------------------------ recaptcha-display.js (2)
\* buildRenderOptions of the second IIFE takes the callbacks from the
\* data-callback attributes, resolved against window; recaptcha-display.js
\* defines no global of that kind, so none resolves to a function.
AttrCallbacks == FALSE

ReplaceAndMaybeRender2NoMark(s, size, bad) ==
    LET newEl == s.el + 1
        s1 == [s EXCEPT !.el = newEl, !.dataSize = size]
        s2 == RenderCalled(s1, newEl)
    IN  IF ~s1.apiPresent THEN s1
        ELSE IF RenderThrows(newEl, bad) THEN s2
        ELSE [s2 EXCEPT !.widgets = Append(@, NewWidget(newEl, size, AttrCallbacks)),
                        !.widgetIdAttr = Len(s1.widgets)]

\* replaceAndMaybeRender of the second IIFE: copyDataAttributes carries
\* data-recaptcha-widget-id over; it is overwritten only when render returns.
ReplaceAndMaybeRender2(s, size, bad) ==
    LET newEl == s.el + 1
        s1 == [s EXCEPT !.el = newEl,
                        !.dataSize = size,
                        !.renderedSize = Norm(size)]
        s2 == RenderCalled(s1, newEl)
    IN  IF ~s1.apiPresent THEN s1
        ELSE IF RenderThrows(newEl, bad) THEN s2
        ELSE [s2 EXCEPT !.widgets = Append(@, NewWidget(newEl, size, AttrCallbacks)),
                        !.widgetIdAttr = Len(s1.widgets)]

ApplyCompact2Always(s, bad) ==
    ReplaceAndMaybeRender2(s, DesiredSize(s.innerWidth), bad)

ApplyCompact2Never(s, bad) == s

ApplyCompact2(s, bad) ==
    LET size == DesiredSize(s.innerWidth)
        appliedNorm == Norm(s.renderedSize)
        desiredNorm == Norm(size)
    IN  IF appliedNorm = desiredNorm /\ s.dataSize = size
        THEN s
        ELSE ReplaceAndMaybeRender2(s, size, bad)

\* The timeout body of scheduleRenderAttempt, for the timer t.
RetryTimerBody(s, t, bad) ==
    LET state == [RetryGet(s, t.el) EXCEPT !.scheduled = FALSE]
        s1 == RetrySet([s EXCEPT !.timers = @ \ {t}], t.el, state)
    IN  AttemptRender(s1, bad)

\* ---------------------------------------------------------------- form.js
RenderRecaptchaIfNeededNoGuard(s, bad) ==
    IF ~s.apiPresent
    THEN [s EXCEPT !.intervals = @ + 1]
    ELSE IF RenderThrows(s.el, bad) THEN RenderCalled(s, s.el)
    ELSE [RenderCalled(s, s.el) EXCEPT
             !.widgets = Append(@, NewWidget(s.el, s.dataSize, TRUE)),
             !.recaptchaWidgetId = Len(s.widgets)]

RenderRecaptchaIfNeeded(s, bad) ==
    IF s.recaptchaWidgetId # NoWidget THEN s
    ELSE IF ~s.apiPresent
    THEN [s EXCEPT !.intervals = @ + 1]
    ELSE IF RenderThrows(s.el, bad) THEN RenderCalled(s, s.el)
    ELSE [RenderCalled(s, s.el) EXCEPT
             !.widgets = Append(@, NewWidget(s.el, s.dataSize, TRUE)),
             !.recaptchaWidgetId = Len(s.widgets)]

IntervalBodyNoRender(s, bad) ==
    IF s.apiPresent THEN [s EXCEPT !.intervals = @ - 1] ELSE s

\* The setInterval body, 200 ms.
IntervalBody(s, bad) ==
    IF s.apiPresent
    THEN RenderRecaptchaIfNeeded([s EXCEPT !.intervals = @ - 1], bad)
    ELSE s

OnRecaptchaApiLoad(s, bad) ==
    LET s1 == [s EXCEPT !.apiLoaded = TRUE]
    IN  IF ~s1.containerHidden THEN RenderRecaptchaIfNeeded(s1, bad) ELSE s1

ShowRecaptcha(s, bad) ==
    RenderRecaptchaIfNeeded([s EXCEPT !.containerHidden = FALSE], bad)

FormOnRecaptchaExpired(s) ==
    IF s.recaptchaWidgetId # NoWidget /\ s.apiPresent
    THEN GrecaptchaReset(s, s.recaptchaWidgetId)
    ELSE s

FormOnRecaptchaError(s) ==
    IF s.recaptchaWidgetId # NoWidget /\ s.apiPresent
    THEN GrecaptchaReset(s, s.recaptchaWidgetId)
    ELSE s

\* window.onSubmitForm of form.js
FormOnSubmitForm(s, bad) ==
    IF /\ s.recaptchaWidgetId # NoWidget
       /\ s.apiPresent
       /\ GetResponse(s, s.recaptchaWidgetId) # ""
    THEN [s EXCEPT !.prevented = FALSE, !.returned = TRUE,
                   !.submissions = @ + 1]
    ELSE [ShowRecaptcha([s EXCEPT !.prevented = TRUE, !.pendingForm = TRUE], bad)
            EXCEPT !.returned = FALSE]

\* window.onRecaptchaSuccess of form.js.  requestSubmit() fires a submit event,
\* which the inline onsubmit attribute answers with onSubmitForm; submit()
\* fires none.
FormOnRecaptchaSuccess(s, hasRequestSubmit, bad) ==
    LET s0 == [s EXCEPT !.successFired = TRUE]
    IN  IF s0.pendingForm
        THEN LET s1 == IF hasRequestSubmit
                       THEN FormOnSubmitForm(s0, bad)
                       ELSE [s0 EXCEPT !.submissions = @ + 1]
             IN  [s1 EXCEPT !.pendingForm = FALSE]
        ELSE s0

\* The click listener of the submit control: TRUE when it cancels the click,
\* so that no submit event follows.
ClickCancels(s) ==
    /\ ~s.containerHidden
    /\ s.recaptchaWidgetId # NoWidget
    /\ s.apiPresent
    /\ GetResponse(s, s.recaptchaWidgetId) = ""

FormUserSubmit(s, bad) ==
    IF ClickCancels(s)
    THEN [s EXCEPT !.pendingForm = TRUE]
    ELSE FormOnSubmitForm(s, bad)

\* ------------------------------------------------------------- the steps
\* Entries of the WeakMap whose node is neither in the document nor held by
\* a pending timer closure are unreachable and collected.
Collect(s) ==
    LET live == {s.el} \cup {t.el : t \in s.timers}
    IN  [s EXCEPT !.retryState = [n \in (DOMAIN @) \cap live |-> @[n]]]

\* A handler other than the resize handlers ran: rz no longer describes a
\* resize handled on its own.
Disturb(s) == [s EXCEPT !.rz = NoRz]

\* The state an external event finds.
Event == [Cur EXCEPT !.events = @ + 1]

Commit(r0) ==
    \E r \in {Collect(r0)} :
        /\ r.el <= MaxNodes
        /\ Len(r.grecaptchaReadyQueue) <= MaxQueue
        /\ r.events <= MaxEvents
        /\ r.intervals <= MaxIntervals
        /\ page' = r.page
        /\ innerWidth' = r.innerWidth
        /\ apiPresent' = r.apiPresent
        /\ widgets' = r.widgets
        /\ grecaptchaReady' = r.grecaptchaReady
        /\ grecaptchaReadyQueue' = r.grecaptchaReadyQueue
        /\ allowSubmit' = r.allowSubmit
        /\ retryState' = r.retryState
        /\ timers' = r.timers
        /\ resizeTimer1' = r.resizeTimer1
        /\ resizeTimer2' = r.resizeTimer2
        /\ el' = r.el
        /\ dataSize' = r.dataSize
        /\ renderedSize' = r.renderedSize
        /\ widgetIdAttr' = r.widgetIdAttr
        /\ containerHidden' = r.containerHidden
        /\ errorBoxes' = r.errorBoxes
        /\ hiddenInputs' = r.hiddenInputs
        /\ recaptchaWidgetId' = r.recaptchaWidgetId
        /\ pendingForm' = r.pendingForm
        /\ apiLoaded' = r.apiLoaded
        /\ intervals' = r.intervals
        /\ submissions' = r.submissions
        /\ invoked' = r.invoked
        /\ successFired' = r.successFired
        /\ renderCalls' = r.renderCalls
        /\ gaveUp' = r.gaveUp
        /\ depth' = r.depth
        /\ dom' = r.dom
        /\ debounce' = r.debounce
        /\ list' = r.list
        /\ deferred' = IF r.submissions > submissions THEN FALSE
                       ELSE (deferred \/ r.prevented)
        /\ rz' = r.rz
        /\ events' = r.events

\* The page as the HTML gives it, before any script has run.
Raw(p, w) ==
    [ page |-> p, innerWidth |-> w, apiPresent |-> FALSE, widgets |-> << >>,
      grecaptchaReady |-> FALSE, grecaptchaReadyQueue |-> << >>,
      allowSubmit |-> FALSE, retryState |-> << >>, timers |-> {},
      resizeTimer1 |-> FALSE, resizeTimer2 |-> FALSE, el |-> 0,
      dataSize |-> Null, renderedSize |-> Null, widgetIdAttr |-> NoWidget,
      containerHidden |-> TRUE, errorBoxes |-> << >>, hiddenInputs |-> << >>,
      recaptchaWidgetId |-> NoWidget, pendingForm |-> FALSE, apiLoaded |-> FALSE,
      intervals |-> 0, submissions |-> 0, prevented |-> FALSE, returned |-> FALSE,
      resetCalls |-> << >>,
      invoked |-> << >>, successFired |-> FALSE, renderCalls |-> << >>,
      gaveUp |-> FALSE, depth |-> 0, dom |-> NoDom,
      debounce |-> NoDebounce, list |-> NoList, rz |-> NoRz, events |-> 0 ]

\* recaptcha-display.js as loaded: each IIFE ends with applyCompact(), before
\* the asynchronous API script has run.  (The DOMContentLoaded listeners run
\* the same two calls again, which then find the sizes applied.)
Loaded(p, w) ==
    IF p = "display"
    THEN Collect(ApplyCompact2(ApplyCompact1(Raw(p, w), {}), {}))
    ELSE Raw(p, w)

InitOf(r) ==
    /\ page = r.page
    /\ innerWidth = r.innerWidth
    /\ apiPresent = r.apiPresent
    /\ widgets = r.widgets
    /\ grecaptchaReady = r.grecaptchaReady
    /\ grecaptchaReadyQueue = r.grecaptchaReadyQueue
    /\ allowSubmit = r.allowSubmit
    /\ retryState = r.retryState
    /\ timers = r.timers
    /\ resizeTimer1 = r.resizeTimer1
    /\ resizeTimer2 = r.resizeTimer2
    /\ el = r.el
    /\ dataSize = r.dataSize
    /\ renderedSize = r.renderedSize
    /\ widgetIdAttr = r.widgetIdAttr
    /\ containerHidden = r.containerHidden
    /\ errorBoxes = r.errorBoxes
    /\ hiddenInputs = r.hiddenInputs
    /\ recaptchaWidgetId = r.recaptchaWidgetId
    /\ pendingForm = r.pendingForm
    /\ apiLoaded = r.apiLoaded
    /\ intervals = r.intervals
    /\ submissions = r.submissions
    /\ invoked = r.invoked
    /\ successFired = r.successFired
    /\ renderCalls = r.renderCalls
    /\ gaveUp = r.gaveUp
    /\ depth = r.depth
    /\ dom = r.dom
    /\ debounce = r.debounce
    /\ list = r.list
    /\ deferred = FALSE
    /\ rz = r.rz
    /\ events = r.events

Init ==
    \/ \E w \in Widths : InitOf(Loaded("display", w))
    \/ InitOf(Loaded("form", 500))

\* The outcomes of the grecaptcha.render calls a handler may make: the set of
\* nodes for which render throws.  One call for most handlers, one per queued
\* callback for the drain.
OneRender(s) == {{}, {IF s.page = "display" THEN s.el + 1 ELSE s.el}}
ManyRenders(s) == SUBSET ((s.el + 1)..MaxNodes)

\* Google's api.js has run: grecaptcha.render exists.
ApiAvailable ==
    /\ ~apiPresent
    /\ Commit([Event EXCEPT !.apiPresent = TRUE])

\* api.js calls the onload hook of the page, after grecaptcha.render exists.
ApiLoadSignal ==
    /\ apiPresent
    /\ IF page = "display"
       THEN \E bad \in ManyRenders(Cur) :
               Commit(Disturb(OnRecaptchaApiLoaded(Event, bad)))
       ELSE /\ ~apiLoaded
            /\ \E bad \in OneRender(Cur) : Commit(OnRecaptchaApiLoad(Event, bad))

\* The user submits the form (submit control or Enter).
UserSubmit ==
    \E bad \in OneRender(Cur) :
       IF page = "display"
       THEN Commit(Disturb(OnSubmitForm(Event, bad)))
       ELSE Commit(FormUserSubmit(Event, bad))

\* A resize event: both IIFEs' onResize restart their debounce timers.
Resize(w) ==
    /\ page = "display"
    /\ LET size == DesiredSize(w)
           crossed == ~(Norm(renderedSize) = Norm(size) /\ dataSize = size)
       IN  Commit([Event EXCEPT !.innerWidth = w,
                              !.resizeTimer1 = TRUE,
                              !.resizeTimer2 = TRUE,
                              !.rz = IF crossed
                                     THEN [replaces |-> 0, renders |-> 0]
                                     ELSE NoRz])

\* What applyCompact did, added to rz.
Counted(s, r, rendersToo) ==
    IF s.rz = NoRz \/ r.el = s.el THEN r
    ELSE [r EXCEPT !.rz = [replaces |-> s.rz.replaces + (r.el - s.el),
                           renders |-> s.rz.renders
                                       + IF rendersToo THEN r.el - s.el ELSE 0]]

\* The first IIFE's debounce timer fires.
ResizeTimer1Fires ==
    /\ resizeTimer1
    /\ \E bad \in OneRender(Cur) :
         LET s == [Cur EXCEPT !.resizeTimer1 = FALSE]
         IN  Commit(Counted(s, ApplyCompact1(s, bad), TRUE))

\* The second IIFE's debounce timer fires; it was set after the first IIFE's,
\* with the same delay, so it fires after it.
ResizeTimer2Fires ==
    /\ resizeTimer2
    /\ ~resizeTimer1
    /\ \E bad \in OneRender(Cur) :
         LET s == [Cur EXCEPT !.resizeTimer2 = FALSE]
         IN  Commit(Counted(s, ApplyCompact2(s, bad), s.apiPresent))

\* A retry timeout fires.
RetryTimerFires(t) ==
    /\ t \in timers
    /\ \E bad \in OneRender(Cur) :
         Commit(Disturb(RetryTimerBody(Cur, t, bad)))

\* A 200 ms poller of form.js ticks.
IntervalTick ==
    /\ intervals > 0
    /\ \E bad \in OneRender(Cur) : Commit(IntervalBody(Cur, bad))

\* The widget in the document, if the user can see it.
Visible(h) ==
    /\ h \in 1..Len(widgets)
    /\ widgets[h].node = el
    /\ ~containerHidden

\* The user solves the visible, unsolved widget, which calls its success
\* callback.
SolveWithCallback(h, token) ==
    /\ Visible(h)
    /\ widgets[h].resp = ""
    /\ widgets[h].cbs
    /\ LET s == [Event EXCEPT !.widgets[h].resp = token]
       IN  IF page = "display"
           THEN Commit(Disturb(OnRecaptchaSuccess(s, token)))
           ELSE \E req \in BOOLEAN :
                   Commit(FormOnRecaptchaSuccess(s, req, {}))

\* The user solves a widget rendered without callbacks.
SolveNoCallback(h, token) ==
    /\ Visible(h)
    /\ widgets[h].resp = ""
    /\ ~widgets[h].cbs
    /\ Commit(Disturb([Event EXCEPT !.widgets[h].resp = token]))

\* The token of a solved widget expires: grecaptcha clears the response and
\* calls the widget's expired-callback, whether or not its node is still in
\* the document.
WidgetExpires(h) ==
    /\ h \in 1..Len(widgets)
    /\ widgets[h].resp # ""
    /\ LET s == [Event EXCEPT !.widgets[h].resp = ""]
       IN  IF ~widgets[h].cbs THEN Commit(Disturb(s))
           ELSE IF page = "display"
           THEN Commit(Disturb(OnRecaptchaExpired(s)))
           ELSE Commit(FormOnRecaptchaExpired(s))

\* The visible widget reports an error (network failure).
WidgetError(h) ==
    /\ Visible(h)
    /\ widgets[h].cbs
    /\ IF page = "display"
       THEN Commit(Disturb(OnRecaptchaError(Event)))
       ELSE Commit(FormOnRecaptchaError(Event))

Next ==
    \/ ApiAvailable
    \/ ApiLoadSignal
    \/ UserSubmit
    \/ \E w \in Widths : Resize(w)
    \/ ResizeTimer1Fires
    \/ ResizeTimer2Fires
    \/ \E t \in timers : RetryTimerFires(t)
    \/ IntervalTick
    \/ \E h \in 1..MaxNodes + 1, token \in Tokens : SolveWithCallback(h, token)
    \/ \E h \in 1..MaxNodes + 1, token \in Tokens : SolveNoCallback(h, token)
    \/ \E h \in 1..MaxNodes + 1 : WidgetExpires(h)
    \/ \E h \in 1..MaxNodes + 1 : WidgetError(h)

Spec == Init /\ [][Next]_vars

\* ------------------------------------------------- the readiness queue alone
\* whenGrecaptchaReady and onRecaptchaApiLoaded driven with arbitrary
\* callbacks, each of which returns or throws.
InitQueue == InitOf(Raw("queue", 500))

Probe(throws) ==
    [id |-> Len(grecaptchaReadyQueue) + Len(invoked) + 1,
     kind |-> "probe", throws |-> throws]

QueueWhenReady(throws) ==
    /\ Len(grecaptchaReadyQueue) + Len(invoked) < MaxProbes
    /\ Commit(WhenGrecaptchaReady(Cur, Probe(throws), {}))

QueueApiLoaded ==
    Commit(OnRecaptchaApiLoaded(Cur, {}))

NextQueue ==
    \/ \E throws \in BOOLEAN : QueueWhenReady(throws)
    \/ QueueApiLoaded

SpecQueue == InitQueue /\ [][NextQueue]_vars

\* ------------------------------------------------------ the form.js page
\* The page driven by form.js, with the scheduling the browser gives it: a
\* setInterval poller keeps ticking until it is cleared.
InitForm == InitOf(Loaded("form", 500))

NextForm ==
    \/ ApiAvailable
    \/ ApiLoadSignal
    \/ UserSubmit
    \/ IntervalTick
    \/ \E h \in 1..MaxNodes + 1, token \in Tokens : SolveWithCallback(h, token)
    \/ \E h \in 1..MaxNodes + 1 : WidgetExpires(h)
    \/ \E h \in 1..MaxNodes + 1 : WidgetError(h)

SpecForm == InitForm /\ [][NextForm]_vars /\ WF_vars(IntervalTick)

\* ------------------------------------------------------ attemptRender alone
\* attemptRender called for every combination of the readiness flag, the
\* availability of grecaptcha.render, the placeholder's widget id and its
\* retry state, one call of the function per step of the call stack.
AttemptInputs ==
    { [Raw("attempt", w) EXCEPT
          !.grecaptchaReady = ready,
          !.apiPresent = api,
          !.containerHidden = FALSE,
          !.widgets = IF wid = NoWidget THEN << >>
                      ELSE << NewWidget(0, DesiredSize(w), TRUE) >>,
          !.widgetIdAttr = wid,
          !.errorBoxes = boxes,
          !.retryState = IF attempts = 0 THEN << >>
                         ELSE (0 :> [attempts |-> attempts, scheduled |-> sched]),
          !.timers = IF attempts > 0 /\ sched
                     THEN {[el |-> 0, delay |-> RETRY_BASE_MS * Pow2(attempts - 1)]}
                     ELSE {}] :
        w \in Widths, ready \in BOOLEAN, api \in BOOLEAN, wid \in {NoWidget, 0},
        boxes \in {<< >>, << MsgError >>},
        attempts \in 0..MAX_RENDER_RETRIES, sched \in BOOLEAN }

InitAttempt ==
    \E r \in AttemptInputs :
        /\ r.widgetIdAttr # NoWidget => r.apiPresent
        /\ InitOf(r)

\* A caller (a submit, a resize, a timer) calls attemptRender.
AttemptInvoke ==
    /\ depth = 0
    /\ Commit([Event EXCEPT !.depth = 1])

\* The call on top of the stack runs to its return: the placeholder is
\* rendered already, or the API is there, or the closure is queued.
AttemptReturns ==
    /\ depth = 1
    /\ apiPresent \/ ~grecaptchaReady
    /\ \E bad \in OneRender(Cur) :
          Commit([AttemptRender(Cur, bad) EXCEPT !.depth = 0])

\* The call on top of the stack finds the API missing and hands its closure
\* to whenGrecaptchaReady, which, the flag being set, calls it on the spot:
\* attemptRender is entered again before the call returns.
AttemptNests ==
    /\ depth >= 1
    /\ depth < MaxDepth
    /\ ~apiPresent /\ grecaptchaReady
    /\ Commit([ClearInlineError(Cur) EXCEPT !.depth = @ + 1])

NextAttempt ==
    \/ AttemptInvoke
    \/ AttemptReturns
    \/ AttemptNests

SpecAttempt == InitAttempt /\ [][NextAttempt]_vars

\* ----------------------------------------------- replaceAndMaybeRender alone
\* replaceAndMaybeRender of the first IIFE on a document given node by node:
\* the children of the parent in order, and the attributes of each node as a
\* function from attribute names to values.
AttrNames ==
    {"id", "data-sitekey", "data-theme", "data-callback", "data-size",
     "data-recaptcha-rendered-size", "data-recaptcha-widget-id"}

\* attr.name.startsWith('data-')
IsDataAttr(a) == a \in AttrNames \ {"id"}

SetAttribute(m, a, v) == [x \in (DOMAIN m) \cup {a} |-> IF x = a THEN v ELSE m[x]]

RemoveAttribute(m, a) == [x \in (DOMAIN m) \ {a} |-> m[x]]

CopyDataAttributesNoTheme(src, dest) ==
    [a \in (DOMAIN dest) \cup {x \in DOMAIN src : IsDataAttr(x) /\ x # "data-theme"} |->
        IF a \in DOMAIN src /\ IsDataAttr(a) THEN src[a] ELSE dest[a]]

CopyDataAttributes(src, dest) ==
    [a \in (DOMAIN dest) \cup {x \in DOMAIN src : IsDataAttr(x)} |->
        IF a \in DOMAIN src /\ IsDataAttr(a) THEN src[a] ELSE dest[a]]

\* The nodes of the harness: the placeholder, its replacement, two siblings.
OldEl == "oldEl"
NewEl == "newEl"
Siblings == << "before", "after" >>

\* parent.replaceChild(newEl, oldEl)
ReplaceChild(children, new, old) ==
    [i \in DOMAIN children |-> IF children[i] = old THEN new ELSE children[i]]

\* String(widgetId) of the handle grecaptcha.render returns in the harness.
NewHandle == "7"

\* d: the document; size: the requested size; api: grecaptcha.render is
\* there; throws: the render call throws.  The field returned is what the
\* function returns: "null", or the widgetId of the record it returns.
ReplaceAndMaybeRenderDom(d, size, api, throws) ==
    IF \A i \in DOMAIN d.children : d.children[i] # OldEl
    THEN [d EXCEPT !.called = TRUE, !.returned = "null"]
    ELSE LET a1 == CopyDataAttributes(d.attrs[OldEl], << >>)
             a2 == IF size # Null THEN SetAttribute(a1, "data-size", size)
                   ELSE RemoveAttribute(a1, "data-size")
             a3 == SetAttribute(a2, "data-recaptcha-rendered-size", Norm(size))
             d1 == [d EXCEPT !.called = TRUE,
                             !.size = size,
                             !.cls = [n \in (DOMAIN @) \cup {NewEl} |->
                                        IF n = NewEl
                                        THEN (IF @[OldEl] = "" THEN "g-recaptcha"
                                              ELSE @[OldEl])
                                        ELSE @[n]],
                             !.attrs = [n \in (DOMAIN @) \cup {NewEl} |->
                                          IF n = NewEl THEN a3 ELSE @[n]],
                             !.children = ReplaceChild(@, NewEl, OldEl)]
         IN  IF api /\ ~throws
             THEN [d1 EXCEPT !.attrs[NewEl] =
                                 SetAttribute(@, "data-recaptcha-widget-id", NewHandle),
                             !.rendered = @ \cup {NewEl},
                             !.returned = NewHandle]
             ELSE [d1 EXCEPT !.returned = "no widgetId"]

\* The attribute sets a placeholder may carry.
AttrChoices ==
    { [a \in present |-> val[a]] :
        present \in { {"data-sitekey"} \cup opt :
                        opt \in SUBSET (AttrNames \ {"data-sitekey"}) },
        val \in { [a \in AttrNames |->
                     CASE a = "id" -> "captcha"
                       [] a = "data-sitekey" -> "key"
                       [] a = "data-theme" -> "dark"
                       [] a = "data-callback" -> "cb"
                       [] a = "data-size" -> sz
                       [] a = "data-recaptcha-rendered-size" -> rsz
                       [] a = "data-recaptcha-widget-id" -> "3"] :
                  sz \in {"compact", "normal"}, rsz \in {"", "compact"} } }

ReplaceInputs ==
    { [children |-> ch, attrs |-> (OldEl :> at), cls |-> (OldEl :> c),
       size |-> Null, rendered |-> {}, called |-> FALSE, returned |-> "null"] :
        ch \in { << OldEl >> \o Siblings,
                 << Siblings[1], OldEl, Siblings[2] >>,
                 Siblings \o << OldEl >>,
                 Siblings },
        at \in AttrChoices,
        c \in {"", "g-recaptcha"} }

InitReplace ==
    \E d \in ReplaceInputs : InitOf([Raw("replace", 500) EXCEPT !.dom = d])

ReplaceCall ==
    /\ page = "replace"
    /\ ~dom.called
    /\ \E size \in {Null, "compact"}, api \in BOOLEAN, throws \in BOOLEAN :
          Commit([Cur EXCEPT !.dom = ReplaceAndMaybeRenderDom(dom, size, api, throws)])

NextReplace ==
    \/ ReplaceCall

SpecReplace == InitReplace /\ [][NextReplace]_vars

\* ------------------------------------------------------ the debounce alone
\* The resize handlers of both IIFEs with the clock: each onResize clears
\* the handle it holds and sets a timeout of DEBOUNCE_MS; a timeout fires at
\* its due time or later, the earlier-set first.  The API stays unavailable.
\* Handler 1 is the first IIFE's, handler 2 the second's.
InitDebounce ==
    \E w \in Widths :
        InitOf([Loaded("display", w) EXCEPT
                   !.page = "debounce",
                   !.debounce = [now |-> 0, pending |-> {},
                                 resizeTimer |-> << 0, 0 >>, nextId |-> 1,
                                 resizes |-> 0, lastResize |-> 0,
                                 runs |-> << >>]])

OnResizeNoClear(d, h) ==
    [d EXCEPT !.pending = @ \cup {[id |-> d.nextId, handler |-> h,
                                   due |-> d.now + DEBOUNCE_MS]},
              !.resizeTimer[h] = d.nextId,
              !.nextId = @ + 1]

\* onResize of handler h: clearTimeout(resizeTimer), then setTimeout.
OnResize(d, h) ==
    [d EXCEPT !.pending = {t \in @ : t.id # d.resizeTimer[h]}
                             \cup {[id |-> d.nextId, handler |-> h,
                                    due |-> d.now + DEBOUNCE_MS]},
              !.resizeTimer[h] = d.nextId,
              !.nextId = @ + 1]

\* A resize event: the listeners of both IIFEs run, in the order added.
DebounceResize(w) ==
    /\ page = "debounce"
    /\ debounce.resizes < MaxResizes
    /\ Commit([Cur EXCEPT
                 !.innerWidth = w,
                 !.debounce = [OnResize(OnResize(debounce, 1), 2) EXCEPT
                                  !.resizes = @ + 1,
                                  !.lastResize = debounce.now]])

\* Time passes.
DebounceTick ==
    /\ page = "debounce"
    /\ debounce.now + DEBOUNCE_MS \div 2 <= MaxTime
    /\ Commit([Cur EXCEPT !.debounce.now = @ + DEBOUNCE_MS \div 2])

\* A timeout that is due fires and runs applyCompact of its IIFE.
DebounceTimerFires(t) ==
    /\ page = "debounce"
    /\ t \in debounce.pending
    /\ debounce.now >= t.due
    /\ \A u \in debounce.pending : u.due > t.due \/ (u.due = t.due /\ u.id >= t.id)
    /\ LET s == [Cur EXCEPT
                    !.debounce.pending = @ \ {t},
                    !.debounce.runs =
                        Append(@, [handler |-> t.handler, at |-> debounce.now,
                                   since |-> debounce.lastResize,
                                   resizes |-> debounce.resizes])]
       IN  IF t.handler = 1
           THEN Commit(ApplyCompact1(s, {}))
           ELSE Commit(ApplyCompact2(s, {}))

NextDebounce ==
    \/ \E w \in Widths : DebounceResize(w)
    \/ DebounceTick
    \/ \E t \in debounce.pending : DebounceTimerFires(t)

SpecDebounce == InitDebounce /\ [][NextDebounce]_vars

\* -------------------------------------------- dynamic_articles_list_page.js
\* What article.date.published may hold: nothing (the date object or the
\* field is missing, or the field is empty), a string new Date() cannot
\* parse, or a date string, given by the milliseconds since the epoch that
\* new Date() parses it to.
PublishedValues ==
    {[kind |-> "missing", ms |-> 0], [kind |-> "invalid", ms |-> 0]}
        \cup {[kind |-> "iso", ms |-> n] : n \in {-1000, 0, 1000, 2000}}

\* safeDate(isoString), as the milliseconds of the Date it returns.
SafeDate(isoString) ==
    IF isoString.kind = "missing" THEN 0               \* !isoString
    ELSE IF isoString.kind = "invalid" THEN 0          \* isNaN(d)
    ELSE isoString.ms

\* The comparator of the sort: db - da.
CompareArticles(a, b) == SafeDate(b.published) - SafeDate(a.published)

\* Array.prototype.filter(a => !a?.hidden), on the indices of the array.
RECURSIVE FilterVisible(_, _)
FilterVisible(articles, i) ==
    IF i > Len(articles) THEN << >>
    ELSE (IF articles[i].hidden THEN << >> ELSE << i >>)
             \o FilterVisible(articles, i + 1)

\* Array.prototype.sort(comparator): a stable sort.  An element goes behind
\* every element of the sorted part the comparator does not put behind it.
RECURSIVE InsertArticle(_, _, _)
InsertArticle(articles, sorted, i) ==
    IF sorted = << >> THEN << i >>
    ELSE IF CompareArticles(articles[Head(sorted)], articles[i]) <= 0
    THEN << Head(sorted) >> \o InsertArticle(articles, Tail(sorted), i)
    ELSE << i >> \o sorted

RECURSIVE SortFrom(_, _, _)
SortFrom(articles, sorted, rest) ==
    IF rest = << >> THEN sorted
    ELSE SortFrom(articles, InsertArticle(articles, sorted, Head(rest)), Tail(rest))

SortArticlesUnsorted(articles, visible) == visible

SortArticles(articles, visible) == SortFrom(articles, << >>, visible)

\* buildArticleNode(article): the item, as far as the list is concerned.
BuildArticleNode(articles, i) ==
    [class |-> "article-item", article |-> i,
     date |-> IF articles[i].published.kind = "missing"
              THEN "Unknown date" ELSE "formatted"]

\* loadAndRenderArticles, given what the page holds, what fetch answers and
\* what the JSON root is.
LoadAndRenderArticles(l) ==
    IF ~l.hasContainer THEN [l EXCEPT !.done = TRUE]
    ELSE IF ~l.respOk \/ ~l.isArray
    THEN [l EXCEPT !.done = TRUE, !.container = << [class |-> "articles-error"] >>]
    ELSE LET visible == SortArticles(l.articles, FilterVisible(l.articles, 1))
         IN  [l EXCEPT !.done = TRUE,
                       !.container = [k \in 1..Len(visible) |->
                                         BuildArticleNode(l.articles, visible[k])]]

RECURSIVE SeqsUpTo(_, _)
SeqsUpTo(S, n) ==
    IF n = 0 THEN {<< >>}
    ELSE LET shorter == SeqsUpTo(S, n - 1)
         IN  shorter \cup {Append(q, x) : q \in shorter, x \in S}

ArticleInputs ==
    SeqsUpTo([hidden : BOOLEAN, published : PublishedValues], MaxArticles)

InitArticles ==
    \E arts \in ArticleInputs, hasContainer \in BOOLEAN :
        InitOf([Raw("articles", 500) EXCEPT
                   !.list = [articles |-> arts, hasContainer |-> hasContainer,
                             respOk |-> TRUE, isArray |-> TRUE,
                             container |-> << [class |-> "static"] >>,
                             done |-> FALSE]])

\* DOMContentLoaded: the page fetches the data and fills the container.
ArticlesLoaded ==
    /\ page = "articles"
    /\ ~list.done
    /\ \E respOk \in BOOLEAN, isArray \in BOOLEAN :
          Commit([Cur EXCEPT !.list = LoadAndRenderArticles(
                    [list EXCEPT !.respOk = respOk, !.isArray = isArray])])

NextArticles ==
    \/ ArticlesLoaded

SpecArticles == InitArticles /\ [][NextArticles]_vars

\* =================================================================== claims
\* The handler that answers a submit event of the page.
SubmitHandler(s, bad) ==
    IF s.page = "display" THEN OnSubmitForm(s, bad) ELSE FormOnSubmitForm(s, bad)

\* The widget the page takes for its own holds a solved token.
SolvedToken ==
    IF page = "display"
    THEN widgetIdAttr # NoWidget /\ GetResponse(Cur, widgetIdAttr) # ""
    ELSE recaptchaWidgetId # NoWidget /\ GetResponse(Cur, recaptchaWidgetId) # ""

Live == {h \in 1..Len(widgets) : widgets[h].node = el}

\* C1: callbacks handed to whenGrecaptchaReady before the load signal are run
\* exactly once each, in the order handed over, by the drain of
\* onRecaptchaApiLoaded; a callback that throws does not keep the later ones
\* from running (the queue is empty once the flag is set); nothing is run
\* before the signal, and a further signal runs nothing again.
C1_ReadinessQueue ==
    page = "queue" =>
        /\ \A i \in 1..Len(invoked) : invoked[i].id = i
        /\ \A i \in 1..Len(grecaptchaReadyQueue) :
               grecaptchaReadyQueue[i].id = Len(invoked) + i
        /\ ~grecaptchaReady => invoked = << >>
        /\ grecaptchaReady => grecaptchaReadyQueue = << >>

C1_Witness ==
    /\ page = "queue"
    /\ grecaptchaReady
    /\ Len(invoked) >= 3
    /\ \A i \in 1..3 : invoked[i].drained
    /\ invoked[2].threw
    /\ ~invoked[3].threw

\* C2: while no widget holds a solved token and the pre-approval flag is down,
\* the handler answers every submit event with preventDefault and false and
\* submits nothing; and no submission at all has happened before a success
\* callback has run.
C2_UnsolvedSubmitIntercepted ==
    /\ submissions > 0 => successFired
    /\ (~allowSubmit /\ \A h \in 1..Len(widgets) : widgets[h].resp = "")
          => \A bad \in OneRender(Cur) :
                /\ SubmitHandler(Cur, bad).prevented
                /\ ~SubmitHandler(Cur, bad).returned
                /\ SubmitHandler(Cur, bad).submissions = submissions

C2_Witness ==
    /\ ~containerHidden
    /\ Live # {}
    /\ \A h \in 1..Len(widgets) : widgets[h].resp = ""
    /\ submissions = 0
    /\ ~successFired

\* C3: when the rendered widget holds a solved token, onSubmitForm answers a
\* submit event without preventDefault and with true, and the form is
\* submitted natively.
C3_SolvedSubmitProceeds ==
    SolvedToken =>
        \A bad \in OneRender(Cur) :
            /\ ~SubmitHandler(Cur, bad).prevented
            /\ SubmitHandler(Cur, bad).returned
            /\ SubmitHandler(Cur, bad).submissions = submissions + 1

\* C4: a success callback with token t leaves exactly one input named
\* g-recaptcha-response, holding t, and makes exactly one form submission,
\* whatever success callbacks ran before.
C4_SuccessInjectsAndSubmitsOnce ==
    [][\A h \in 1..MaxNodes + 1, token \in Tokens :
          (page = "display" /\ SolveWithCallback(h, token))
             => /\ hiddenInputs' = << token >>
                /\ submissions' = submissions + 1]_vars

C4_Witness ==
    /\ page = "display"
    /\ submissions = 2
    /\ allowSubmit
    /\ hiddenInputs = << "t2" >>

\* C5: the resubmission made by the success callback consumes the pre-approval
\* flag, so that after a success callback allowSubmit is false again and a
\* user's submit event is intercepted.
C5_PreApprovalConsumed ==
    page = "display" =>
        /\ ~allowSubmit
        /\ \A bad \in OneRender(Cur) : OnSubmitForm(Cur, bad).prevented

\* The step made a grecaptcha.render call that threw: a node was replaced
\* with the API present and no widget came of it.
RenderThrew ==
    /\ apiPresent
    /\ el' # el
    /\ Len(widgets') = Len(widgets)

\* C6: when a retry fires and its render throws, the next retry is scheduled
\* with twice the delay (700, 1400, 2800, 5600, 11200 ms); after the fifth the
\* terminal message is shown and no timer is scheduled.
C6_ThrowingRendersBackOff ==
    [][\A t \in timers :
          (page = "display" /\ RetryTimerFires(t) /\ RenderThrew)
             => IF t.delay < RETRY_BASE_MS * Pow2(MAX_RENDER_RETRIES - 1)
                THEN timers' \ timers = {[el |-> el', delay |-> 2 * t.delay]}
                ELSE /\ timers' \subseteq timers
                     /\ errorBoxes' = << MsgFailed >>]_vars

\* C7: while the API stays unavailable, each retry scheduled when a retry
\* fires has a strictly larger delay than the one that fired, and the retry
\* with the largest delay (the fifth) is followed by none.
C7_AbsentApiBacksOff ==
    [][\A t \in timers :
          (page = "display" /\ ~apiPresent' /\ RetryTimerFires(t))
             => /\ \A n \in timers' \ timers : n.delay > t.delay
                /\ t.delay = RETRY_BASE_MS * Pow2(MAX_RENDER_RETRIES - 1)
                      => timers' \subseteq timers]_vars

\* C8: once both debounce timers have fired, the widget bound to the
\* placeholder in the document has size compact if and only if the viewport
\* is narrower than the breakpoint.
C8_SizeFollowsViewport ==
    (page = "display" /\ ~resizeTimer1 /\ ~resizeTimer2)
       => \A h \in Live :
             (widgets[h].size = "compact") <=> (innerWidth < BREAKPOINT)

C8_Witness ==
    /\ page = "display"
    /\ ~resizeTimer1 /\ ~resizeTimer2
    /\ innerWidth = 300
    /\ rz = [replaces |-> 1, renders |-> 1]
    /\ Len(widgets) = 2
    /\ \E h \in Live : widgets[h].size = "compact"

\* C9: a resize that leaves the placeholder with the wrong size, handled with
\* no other handler in between, replaces the placeholder exactly once, with
\* one render call when the API is there, and the placeholder then carries
\* the size attributes of the new width (compact below the breakpoint).
C9_OneReplacePerResize ==
    [][(page = "display" /\ resizeTimer2 /\ ~resizeTimer2' /\ rz # NoRz)
          => /\ rz'.replaces = 1
             /\ rz'.renders = IF apiPresent THEN 1 ELSE 0
             /\ dataSize' = DesiredSize(innerWidth)
             /\ renderedSize' = Norm(DesiredSize(innerWidth))]_vars

C9_Witness ==
    /\ page = "display"
    /\ ~resizeTimer1 /\ ~resizeTimer2
    /\ innerWidth = 300
    /\ rz = [replaces |-> 1, renders |-> 1]
    /\ dataSize = "compact"
    /\ widgetIdAttr = 1

\* C10: at most one widget is bound to the placeholder in the document, and a
\* callback fired late by a widget whose node was replaced changes nothing of
\* the page: not the token field, the submissions, the messages, the timers,
\* nor the widget that replaced it.
C10_LateCallbacksInert ==
    /\ [](Cardinality(Live) <= 1)
    /\ [][\A h \in 1..MaxNodes + 1 :
             (page = "display" /\ WidgetExpires(h) /\ widgets[h].node # el)
                => /\ hiddenInputs' = hiddenInputs
                   /\ submissions' = submissions
                   /\ errorBoxes' = errorBoxes
                   /\ timers' = timers
                   /\ \A k \in Live : widgets'[k] = widgets[k]]_vars

\* C11: at most one backoff retry timer of the container is pending at any
\* time, whatever submits, resizes, widget callbacks and render failures occur.
C11_OneRetryTimerPending ==
    Cardinality(timers) <= 1

\* C12: grecaptcha.render is never called twice on the same DOM node, a call
\* that throws included, and no two widgets are bound to the same node.
C12_RenderOncePerNode ==
    /\ \A n \in DOMAIN renderCalls : renderCalls[n] <= 1
    /\ \A h1, h2 \in 1..Len(widgets) :
          widgets[h1].node = widgets[h2].node => h1 = h2

\* The attempt count retryState holds for the placeholder in the document.
AttemptCount == RetryGet(Cur, el).attempts

\* C13: the attempt count of the container's placeholder goes down only in a
\* step that renders a widget; a failed attempt never lowers it, and it never
\* passes the ceiling of MAX_RENDER_RETRIES.
C13_AttemptsResetOnlyOnSuccess ==
    /\ [](AttemptCount <= MAX_RENDER_RETRIES)
    /\ [][(page = "display" /\ AttemptCount' < AttemptCount)
             => Len(widgets') > Len(widgets)]_vars

\* The expired-callback of the page.
ExpiredHandler(s) ==
    IF s.page = "display" THEN OnRecaptchaExpired(s) ELSE FormOnRecaptchaExpired(s)

\* C14: when the rendered widget calls the expired callback, the handler
\* resets that widget through grecaptcha.reset with its handle, shows the
\* expiry message in the container, submits nothing, and leaves the gate
\* awaiting the challenge: a submit event that follows is intercepted.
C14_ExpiredResetsAndTells ==
    \A h \in Live :
        (widgets[h].cbs /\ widgets[h].resp # "")
           => LET r == ExpiredHandler([Cur EXCEPT !.widgets[h].resp = ""])
              IN  /\ r.resetCalls = << h - 1 >>
                  /\ r.errorBoxes = << MsgExpired >>
                  /\ r.submissions = submissions
                  /\ \A bad \in OneRender(r) : SubmitHandler(r, bad).prevented

\* The error-callback of the page.
ErrorHandler(s) ==
    IF s.page = "display" THEN OnRecaptchaError(s) ELSE FormOnRecaptchaError(s)

\* C15: when the rendered widget calls the error callback, the handler shows
\* the inline error, resets that widget, and schedules a retry of the render
\* attempt whose firing renders a widget anew.
C15_ErrorResetsAndRetries ==
    \A h \in Live :
        (widgets[h].cbs /\ ~containerHidden)
           => LET r == ErrorHandler(Cur)
              IN  /\ r.errorBoxes = << MsgError >>
                  /\ r.resetCalls = << h - 1 >>
                  /\ \E t \in r.timers :
                        /\ t.el = r.el
                        /\ Len(RetryTimerBody(r, t, {}).widgets) = Len(widgets) + 1

RenderHasThrown ==
    el \in DOMAIN renderCalls /\ renderCalls[el] > Cardinality(Live)

RenderedIn(s) ==
    \E h \in 1..Len(s.widgets) : s.widgets[h].node = s.el

\* In the state s a render is waiting for the API: a closure in the readiness
\* queue (recaptcha-display.js) or a pending poller (form.js).
QueuedIn(s) ==
    IF s.page = "display" THEN s.grecaptchaReadyQueue # << >> ELSE s.intervals > 0

\* In the state s a retry timer is pending for the placeholder in the document.
ScheduledIn(s) ==
    \E t \in s.timers : t.el = s.el

\* C18: a submit event that is intercepted leaves the container unhidden and
\* the widget rendered, or a render queued for API readiness, or a retry
\* scheduled for the placeholder.
C18_InterceptTriggersRender ==
    \A bad \in OneRender(Cur) :
        LET r == SubmitHandler(Cur, bad)
        IN  r.prevented
               => /\ ~r.containerHidden
                  /\ RenderedIn(r) \/ QueuedIn(r) \/ ScheduledIn(r)

PendingSubmission ==
    IF page = "form" THEN pendingForm ELSE deferred

SuccessStep ==
    \E h \in 1..Len(widgets) :
        /\ h <= Len(widgets')
        /\ widgets[h].cbs
        /\ widgets[h].resp = ""
        /\ widgets'[h].resp # ""

C20_SuccessSubmitsOnlyPending ==
    [][SuccessStep =>
          /\ submissions' > submissions => PendingSubmission
          /\ ~PendingSubmission']_vars

\* C21: a retry timer that fires after a render has succeeded finds the
\* placeholder rendered: the step replaces no node, calls grecaptcha.render
\* on nothing and leaves no timer that was not pending before; and a render
\* that attemptRender made with success leaves no inline error behind.
TimerFired ==
    \E t \in timers : t \notin timers'

C21_LateRetryIsNoOp ==
    [][/\ (TimerFired /\ widgets # << >>) =>
             /\ el' = el
             /\ renderCalls' = renderCalls
             /\ timers' \subseteq timers
       /\ (/\ page = "display"
           /\ Len(widgets') > Len(widgets)
           /\ widgets'[Len(widgets')].cbs) => errorBoxes' = << >>]_vars

\* A render has succeeded on the node in the document while the timer of a
\* node replaced since is pending, and that timer, firing, changes nothing.
C21_Witness ==
    \E t \in timers :
        /\ t.el < el
        /\ \E h \in 1..Len(widgets) : widgets[h].node = el /\ widgets[h].cbs
        /\ errorBoxes = << >>
        /\ RetryTimerBody(Cur, t, {}).el = el
        /\ RetryTimerBody(Cur, t, {}).timers = timers \ {t}

\* C22: when a debounce timer fires on a placeholder whose
\* data-recaptcha-rendered-size and data-size equal the size the viewport
\* asks for, applyCompact replaces no node and calls grecaptcha.render on
\* nothing: resizes that stay on one side of the breakpoint do not re-render.
SizeApplied ==
    /\ Norm(renderedSize) = Norm(DesiredSize(innerWidth))
    /\ dataSize = DesiredSize(innerWidth)

ResizeTimerFired ==
    \/ resizeTimer1 /\ ~resizeTimer1'
    \/ resizeTimer2 /\ ~resizeTimer2'

C22_ApplyCompactIdempotent ==
    [][(ResizeTimerFired /\ SizeApplied) =>
          /\ el' = el
          /\ renderCalls' = renderCalls
          /\ widgets' = widgets]_vars

\* A resize has left both debounce timers pending on a rendered placeholder
\* of the size asked for, and neither applyCompact touches it.
C22_Witness ==
    /\ page = "display"
    /\ resizeTimer1 /\ resizeTimer2
    /\ SizeApplied
    /\ apiPresent
    /\ Live # {}
    /\ \A bad \in OneRender(Cur) :
          /\ ApplyCompact1(Cur, bad).el = el
          /\ ApplyCompact2(Cur, bad).el = el

\* C23: every widget the display script has rendered, at the first render or
\* at a re-render after a resize across the breakpoint, was given the
\* success, expired and error callbacks, so that solving it injects the token
\* and submits the form.
C23_RendersPassCallbacks ==
    page = "display" => \A h \in 1..Len(widgets) : widgets[h].cbs

\* C24: the container holds at most one .recaptcha-error-box at any time;
\* a message shown while one is showing replaces its text.
C24_OneErrorBox ==
    Len(errorBoxes) <= 1

\* The container shows the expiry message and the widget can report an
\* error: the error handler leaves one box, with the new text.
C24_Witness ==
    /\ page = "display"
    /\ errorBoxes = << MsgExpired >>
    /\ \E h \in 1..Len(widgets) : Visible(h) /\ widgets[h].cbs
    /\ OnRecaptchaError(Cur).errorBoxes = << MsgError >>

\* C25: once the load signal has set the readiness flag, the flag stays set
\* and the readiness queue is empty, after the drain and from then on; a
\* callback handed to whenGrecaptchaReady after the signal is run in the call
\* itself and not queued.
C25_ReadyStaysReady ==
    [][/\ grecaptchaReady' => grecaptchaReadyQueue' = << >>
       /\ grecaptchaReady =>
             /\ grecaptchaReady'
             /\ page = "queue" =>
                   /\ Len(invoked') = Len(invoked) + 1
                   /\ SubSeq(invoked', 1, Len(invoked)) = invoked
                   /\ ~invoked'[Len(invoked')].drained]_vars

\* Callbacks were queued and drained by the signal, and one handed over
\* after the signal has been run without being queued.
C25_Witness ==
    /\ page = "queue"
    /\ grecaptchaReady
    /\ grecaptchaReadyQueue = << >>
    /\ \E i \in 1..Len(invoked) : invoked[i].drained
    /\ \E i \in 1..Len(invoked) : ~invoked[i].drained

\* C26: replaceAndMaybeRender puts the new node where the old node was among
\* the children of its parent and leaves the old node outside the document;
\* the new node carries each data-* attribute of the old node, with its
\* value, other than data-size and data-recaptcha-rendered-size, which
\* follow the requested size, and data-recaptcha-widget-id, which is the
\* handle returned when the render call has returned one.
Position(children, n) ==
    CHOOSE i \in DOMAIN children : children[i] = n

C26_ReplaceCopiesDataAttributes ==
    [][(~dom.called /\ dom'.called /\ OldEl \in {dom.children[i] : i \in DOMAIN dom.children}) =>
          LET old == dom.attrs[OldEl]
              new == dom'.attrs[NewEl]
              kept == {a \in AttrNames : IsDataAttr(a)}
                          \ {"data-size", "data-recaptcha-rendered-size",
                             "data-recaptcha-widget-id"}
          IN  /\ dom'.children =
                     [dom.children EXCEPT ![Position(dom.children, OldEl)] = NewEl]
              /\ \A i \in DOMAIN dom'.children : dom'.children[i] # OldEl
              /\ \A a \in kept :
                     /\ a \in DOMAIN old <=> a \in DOMAIN new
                     /\ a \in DOMAIN old => new[a] = old[a]
              /\ IF dom'.size = Null
                 THEN "data-size" \notin DOMAIN new
                 ELSE "data-size" \in DOMAIN new /\ new["data-size"] = dom'.size
              /\ new["data-recaptcha-rendered-size"] = Norm(dom'.size)
              /\ NewEl \in dom'.rendered =>
                     new["data-recaptcha-widget-id"] = dom'.returned]_vars

\* A placeholder with a theme, a callback attribute and the size "normal",
\* in the middle of its parent, has been replaced by a node of size
\* "compact" on which the render call returned a handle.
C26_Witness ==
    /\ page = "replace"
    /\ dom.called
    /\ dom.children = << Siblings[1], NewEl, Siblings[2] >>
    /\ "data-size" \in DOMAIN dom.attrs[OldEl]
    /\ dom.attrs[OldEl]["data-size"] = "normal"
    /\ {"data-theme", "data-callback"} \subseteq DOMAIN dom.attrs[NewEl]
    /\ dom.size = "compact"
    /\ dom.attrs[NewEl]["data-size"] = "compact"
    /\ NewEl \in dom.rendered

\* C27: each resize handler has at most one timeout pending; applyCompact
\* runs only when DEBOUNCE_MS have passed since the last resize event; and
\* of the resize events of one burst only the last is followed by a run of
\* a handler's applyCompact.
C27_ResizeDebounced ==
    page = "debounce" =>
        /\ \A h \in {1, 2} :
               Cardinality({t \in debounce.pending : t.handler = h}) <= 1
        /\ \A i \in 1..Len(debounce.runs) :
               debounce.runs[i].at - debounce.runs[i].since >= DEBOUNCE_MS
        /\ \A i, j \in 1..Len(debounce.runs) :
               (i < j /\ debounce.runs[i].handler = debounce.runs[j].handler)
                   => debounce.runs[i].resizes < debounce.runs[j].resizes

\* A burst of three resize events, the last less than DEBOUNCE_MS after the
\* first, has been followed by one run of each applyCompact.
C27_Witness ==
    /\ page = "debounce"
    /\ debounce.resizes = MaxResizes
    /\ debounce.lastResize > 0
    /\ debounce.lastResize < DEBOUNCE_MS
    /\ debounce.pending = {}
    /\ Len(debounce.runs) = 2
    /\ debounce.runs[1].handler = 1
    /\ debounce.runs[2].handler = 2

\* C28: a data-recaptcha-widget-id on the placeholder in the document is the
\* handle a grecaptcha.render call returned for that very node: it is not
\* the handle of a widget bound to a node replaced since, and it does not
\* stay on a node whose render call threw.
C28_WidgetIdIsOwn ==
    (page = "display" /\ widgetIdAttr # NoWidget) =>
        /\ widgetIdAttr + 1 \in 1..Len(widgets)
        /\ widgets[widgetIdAttr + 1].node = el

\* C29: form.js: grecaptcha.render returns a widget at most once; once
\* recaptchaWidgetId is set it keeps its value and no step calls
\* grecaptcha.render again, pollers still pending included; and once the API
\* is available every pending poller gets cleared.
C29_FormRendersAtMostOnce ==
    /\ [](page = "form" => Len(widgets) <= 1)
    /\ [][(page = "form" /\ recaptchaWidgetId # NoWidget) =>
             /\ recaptchaWidgetId' = recaptchaWidgetId
             /\ renderCalls' = renderCalls]_vars
    /\ (page = "form" /\ apiPresent /\ intervals > 0) ~> (intervals = 0)

\* The widget has been rendered while a poller started by an earlier submit
\* is still pending, and that poller's tick renders nothing.
C29_Witness ==
    /\ page = "form"
    /\ recaptchaWidgetId # NoWidget
    /\ intervals > 0
    /\ IntervalBody(Cur, {}).widgets = widgets
    /\ IntervalBody(Cur, {}).intervals = intervals - 1

\* C30: once the list has been rendered from the fetched array, its items
\* are the articles whose hidden field is falsy, each once, the later
\* published first, an article without a date, or with one that cannot be
\* parsed, counting as published at epoch 0; such an article comes after
\* every article published after the epoch.
Rendered ==
    /\ page = "articles"
    /\ list.done
    /\ list.hasContainer /\ list.respOk /\ list.isArray

ItemDate(k) == list.articles[list.container[k].article].published

C30_ArticlesNewestFirst ==
    Rendered =>
        /\ \A k \in 1..Len(list.container) :
               list.container[k].class = "article-item"
        /\ {list.container[k].article : k \in 1..Len(list.container)}
               = {i \in 1..Len(list.articles) : ~list.articles[i].hidden}
        /\ \A k, m \in 1..Len(list.container) :
               k < m =>
                  /\ list.container[k].article # list.container[m].article
                  /\ SafeDate(ItemDate(k)) >= SafeDate(ItemDate(m))
        /\ \A k, m \in 1..Len(list.container) :
               (ItemDate(k).kind # "iso" /\ ItemDate(m).kind = "iso"
                  /\ ItemDate(m).ms > 0) => m < k

\* Three visible articles, given oldest first with an undated one in the
\* middle, and a rendered list that starts with the last of them.
C30_Witness ==
    /\ Rendered
    /\ Len(list.container) = MaxArticles
    /\ list.articles[1].published = [kind |-> "iso", ms |-> 1000]
    /\ list.articles[2].published.kind = "missing"
    /\ list.articles[3].published = [kind |-> "iso", ms |-> 2000]
    /\ list.container[1].article = 3
    /\ list.container[3].article = 2

\* C30 as stated: an article without a usable date comes after every article
\* that has one.
C30_UndatedAfterEveryDated ==
    Rendered =>
        \A k, m \in 1..Len(list.container) :
            (ItemDate(k).kind # "iso" /\ ItemDate(m).kind = "iso") => m < k

====
